---- MODULE Spec2Model ----
(***************************************************************************)
(* Notification list service of the DNNDON dashboard: the mock record      *)
(* store, the list endpoint (filter, sort, paginate, metadata) and the     *)
(* insert / update / delete handlers, modelled from the route handlers;    *)
(* and the client table: the address it keeps page and page size in, its   *)
(* local filters, and the query cache its list hook reads.                 *)
(*                                                                         *)
(* Text values that the handlers inspect character by character (country,  *)
(* city, query-string values) are sequences of one-character strings;      *)
(* values they only compare or copy (id, type, status, space, dateTime)    *)
(* are atomic strings.  A JavaScript number is a record [kind, v] so that  *)
(* NaN and Infinity are values of their own.                               *)
(***************************************************************************)
EXTENDS Integers, Sequences, FiniteSets, TLC

VARIABLES
  notifications,          \* the module-level mock store array
  request,                \* the request being served: handler, query string, body
  filteredNotifications,  \* GET's local array after the filter and sort steps
  response,               \* the response returned for `request`
  uuidCount,              \* how many ids crypto.randomUUID() has handed out
  writes,                 \* how many requests have changed the store
  location,               \* the search params of the browser's address
  columnFilters,          \* DataTable's useState: the column filters
  queries,                \* the query cache: query key -> query state
  lastQueryWithDefinedData, \* the observer's last query that had data
  inflight,               \* the list requests the browser is waiting for
  fetchCount,             \* how many list requests have been sent
  event,                  \* the last handler of the client that ran
  suspended,              \* the invocations waiting at an await
  cached,                 \* dbConnect.ts: global.mongooseCache, {conn, promise}
  connectionPromise,      \* the mongoose route's module-level promise
  attempts                \* the mongoose.connect calls made, each with its state

serverVars == <<notifications, request, filteredNotifications, response, uuidCount, writes>>
clientVars == <<location, columnFilters, queries,
                lastQueryWithDefinedData, inflight, fetchCount, event>>
runtimeVars == <<suspended, cached, connectionPromise, attempts>>
vars == <<serverVars, clientVars, runtimeVars>>

---------------------------------------------------------------------------
(* Bounds of the model.                                                    *)

\* longest store the query specification starts from
MaxRecords == 3
\* most requests that change the store in one behaviour
MaxWrites == 2
\* most list requests the client sends in one behaviour
MaxFetches == 3
\* most column filters set at a time
MaxFilters == 1

---------------------------------------------------------------------------
(* Characters and strings.                                                 *)

UpperChars == <<"A","B","C","D","E","F","G","H","I","J","K","L","M",
                "N","O","P","Q","R","S","T","U","V","W","X","Y","Z">>
LowerChars == <<"a","b","c","d","e","f","g","h","i","j","k","l","m",
                "n","o","p","q","r","s","t","u","v","w","x","y","z">>
DigitChars == <<"0","1","2","3","4","5","6","7","8","9">>

IndexIn(c, chars) == CHOOSE i \in 1..Len(chars) : chars[i] = c
IsIn(c, chars) == \E i \in 1..Len(chars) : chars[i] = c

\* String.prototype.toLowerCase on the characters the model uses
LowerChar(c) == IF IsIn(c, UpperChars) THEN LowerChars[IndexIn(c, UpperChars)] ELSE c
toLowerCase(s) == [i \in 1..Len(s) |-> LowerChar(s[i])]

\* String.prototype.includes: q occurs in s as a contiguous run
includes(s, q) ==
  \E i \in 0..(Len(s) - Len(q)) : SubSeq(s, i + 1, i + Len(q)) = q

\* UTF-16 code unit order of the characters the model uses
CodeOrder == <<" ", "+", "-">> \o DigitChars \o UpperChars \o LowerChars
Code(c) == IndexIn(c, CodeOrder)

\* s < t for two character sequences, as the JavaScript < on strings
RECURSIVE SeqLess(_, _)
SeqLess(s, t) ==
  IF t = <<>> THEN FALSE
  ELSE IF s = <<>> THEN TRUE
  ELSE IF s[1] = t[1] THEN SeqLess(Tail(s), Tail(t))
  ELSE Code(s[1]) < Code(t[1])

\* the atomic strings a sort can compare, in ascending JavaScript string order
AtomOrder == <<"Bogus", "Cancelled", "Delivered", "In Progress", "Photo", "Text", "Video">>
AtomLess(x, y) == IndexIn(x, AtomOrder) < IndexIn(y, AtomOrder)

---------------------------------------------------------------------------
(* JavaScript numbers.                                                     *)

Num(n) == [kind |-> "num", v |-> n]
NaN == [kind |-> "NaN", v |-> 0]
Infinity == [kind |-> "Infinity", v |-> 0]
JsonNull == [kind |-> "null", v |-> 0]
IsNum(x) == x.kind = "num"

DigitVal(c) == IndexIn(c, DigitChars) - 1
IsDigit(c) == IsIn(c, DigitChars)

RECURSIVE TrimStart(_)
TrimStart(s) == IF s # <<>> /\ s[1] = " " THEN TrimStart(Tail(s)) ELSE s
RECURSIVE TrimEnd(_)
TrimEnd(s) ==
  IF s # <<>> /\ s[Len(s)] = " " THEN TrimEnd(SubSeq(s, 1, Len(s) - 1)) ELSE s

\* value of the longest run of digits that starts s, most significant first
RECURSIVE DigitsValue(_, _)
DigitsValue(s, acc) ==
  IF s = <<>> \/ ~IsDigit(s[1]) THEN acc
  ELSE DigitsValue(Tail(s), acc * 10 + DigitVal(s[1]))

Unsigned(s) == IF s # <<>> /\ s[1] \in {"-", "+"} THEN Tail(s) ELSE s
SignOf(s) == IF s # <<>> /\ s[1] = "-" THEN -1 ELSE 1

\* parseInt(s): leading blanks, an optional sign, then the digits up to the
\* first character that is not one; NaN when there is no digit
parseInt(s) ==
  LET t == TrimStart(s)
      u == Unsigned(t)
  IN IF u = <<>> \/ ~IsDigit(u[1]) THEN NaN ELSE Num(SignOf(t) * DigitsValue(u, 0))

\* Number(s) on strings of blanks, signs, digits and letters: the blank string
\* is 0, a signed run of digits is its value, anything else is NaN
Number(s) ==
  LET t == TrimEnd(TrimStart(s))
      u == Unsigned(t)
  IN IF t = <<>> THEN Num(0)
     ELSE IF u # <<>> /\ \A i \in 1..Len(u) : IsDigit(u[i])
          THEN Num(SignOf(t) * DigitsValue(u, 0))
          ELSE NaN

\* a - 1, a * b, a + b on numbers that are an integer or NaN
Minus1(a) == IF IsNum(a) THEN Num(a.v - 1) ELSE NaN
Times(a, b) == IF IsNum(a) /\ IsNum(b) THEN Num(a.v * b.v) ELSE NaN
Plus(a, b) == IF IsNum(a) /\ IsNum(b) THEN Num(a.v + b.v) ELSE NaN

\* Math.ceil(n / d) for an array length n >= 0 and a number d
CeilDiv(n, d) ==
  IF ~IsNum(d) THEN NaN
  ELSE IF d.v = 0 THEN (IF n = 0 THEN NaN ELSE Infinity)
  ELSE IF d.v > 0 THEN Num((n + d.v - 1) \div d.v)
  ELSE Num(-(n \div (-d.v)))

\* n < len for a number n and an array length len (false for NaN)
LessThanLen(n, len) == IsNum(n) /\ n.v < len

\* JSON.stringify of a number: NaN and Infinity are written as null
JsonNumber(x) == IF IsNum(x) THEN x ELSE JsonNull

---------------------------------------------------------------------------
(* Arrays.                                                                 *)

\* ToIntegerOrInfinity of a slice argument, then the clamping of
\* Array.prototype.slice: NaN is 0, a negative index counts from the end
RelativeIndex(x, len) ==
  LET i == IF IsNum(x) THEN x.v ELSE 0
  IN IF i < 0 THEN (IF len + i < 0 THEN 0 ELSE len + i)
     ELSE (IF i > len THEN len ELSE i)

\* Array.prototype.slice(start, end) with 0-based, end-exclusive arguments
slice(arr, start, end) ==
  LET k == RelativeIndex(start, Len(arr))
      final == RelativeIndex(end, Len(arr))
  IN IF final <= k THEN <<>> ELSE SubSeq(arr, k + 1, final)

\* findIndex whose -1 is used as an index: splice(-1, 1) and arr[-1] = x act
\* on the last element
findIndex_lastOnMiss(arr, id) ==
  IF \E i \in 1..Len(arr) : "id" \in DOMAIN arr[i] /\ arr[i].id = id
  THEN CHOOSE i \in 1..Len(arr) :
         /\ "id" \in DOMAIN arr[i] /\ arr[i].id = id
         /\ \A j \in 1..(i - 1) : ~("id" \in DOMAIN arr[j] /\ arr[j].id = id)
  ELSE Len(arr)

\* the index the record had before a record in front of it was removed
findIndex_stale(arr, id) ==
  IF \E i \in 1..Len(arr) : "id" \in DOMAIN arr[i] /\ arr[i].id = id
  THEN LET index == CHOOSE i \in 1..Len(arr) :
                      /\ "id" \in DOMAIN arr[i] /\ arr[i].id = id
                      /\ \A j \in 1..(i - 1) : ~("id" \in DOMAIN arr[j] /\ arr[j].id = id)
       IN IF index < Len(arr) THEN index + 1 ELSE index
  ELSE 0

\* Array.prototype.findIndex by id, 1-based; 0 stands for -1 (not found)
findIndex(arr, id) ==
  IF \E i \in 1..Len(arr) : "id" \in DOMAIN arr[i] /\ arr[i].id = id
  THEN CHOOSE i \in 1..Len(arr) :
         /\ "id" \in DOMAIN arr[i] /\ arr[i].id = id
         /\ \A j \in 1..(i - 1) : ~("id" \in DOMAIN arr[j] /\ arr[j].id = id)
  ELSE 0

\* object spread { ...a, ...b }: b's fields win
Spread(a, b) ==
  [k \in (DOMAIN a) \cup (DOMAIN b) |-> IF k \in DOMAIN b THEN b[k] ELSE a[k]]

---------------------------------------------------------------------------
(* The mock store's fixture.                                               *)

Fixture ==
  << [id |-> "1", type |-> "Photo", space |-> "230 X 500 PX",
      country |-> <<"S","a","u","d","i"," ","A","r","a","b","i","a">>,
      city |-> <<"R","i","y","a","d","h">>,
      dateTime |-> "14, Jan, 2025 - 11:08 PM", status |-> "Delivered"],
     [id |-> "2", type |-> "Text", space |-> "PX 230 X 500",
      country |-> <<"U","n","i","t","e","d"," ","A","r","a","b"," ","E","m","i","r","a","t","e","s">>,
      city |-> <<"D","u","b","a","i">>,
      dateTime |-> "14, Jan, 2025 - 10:30 PM", status |-> "In Progress"],
     [id |-> "3", type |-> "Text", space |-> "PX 230 X 500",
      country |-> <<"K","u","w","a","i","t">>,
      city |-> <<"K","u","w","a","i","t"," ","C","i","t","y">>,
      dateTime |-> "14, Jan, 2025 - 09:45 PM", status |-> "Cancelled"],
     [id |-> "4", type |-> "Photo", space |-> "PX 230 X 500",
      country |-> <<"Q","a","t","a","r">>,
      city |-> <<"D","o","h","a">>,
      dateTime |-> "14, Jan, 2025 - 09:15 PM", status |-> "Delivered"],
     [id |-> "5", type |-> "Text", space |-> "PX 230 X 500",
      country |-> <<"B","a","h","r","a","i","n">>,
      city |-> <<"M","a","n","a","m","a">>,
      dateTime |-> "14, Jan, 2025 - 08:50 PM", status |-> "In Progress"],
     [id |-> "6", type |-> "Photo", space |-> "230 X 500 PX",
      country |-> <<"O","m","a","n">>,
      city |-> <<"M","u","s","c","a","t">>,
      dateTime |-> "14, Jan, 2025 - 08:20 PM", status |-> "Delivered"],
     [id |-> "7", type |-> "Text", space |-> "PX 230 X 500",
      country |-> <<"E","g","y","p","t">>,
      city |-> <<"C","a","i","r","o">>,
      dateTime |-> "14, Jan, 2025 - 07:45 PM", status |-> "In Progress"],
     [id |-> "8", type |-> "Photo", space |-> "230 X 500 PX",
      country |-> <<"J","o","r","d","a","n">>,
      city |-> <<"A","m","m","a","n">>,
      dateTime |-> "14, Jan, 2025 - 07:15 PM", status |-> "Cancelled"],
     [id |-> "9", type |-> "Text", space |-> "PX 230 X 500",
      country |-> <<"L","e","b","a","n","o","n">>,
      city |-> <<"B","e","i","r","u","t">>,
      dateTime |-> "14, Jan, 2025 - 06:40 PM", status |-> "Delivered"],
     [id |-> "10", type |-> "Photo", space |-> "230 X 500 PX",
      country |-> <<"I","r","a","q">>,
      city |-> <<"B","a","g","h","d","a","d">>,
      dateTime |-> "14, Jan, 2025 - 06:10 PM", status |-> "In Progress"],
     [id |-> "11", type |-> "Text", space |-> "PX 230 X 500",
      country |-> <<"Y","e","m","e","n">>,
      city |-> <<"S","a","n","a","a">>,
      dateTime |-> "14, Jan, 2025 - 05:35 PM", status |-> "Cancelled"],
     [id |-> "12", type |-> "Photo", space |-> "230 X 500 PX",
      country |-> <<"S","y","r","i","a">>,
      city |-> <<"D","a","m","a","s","c","u","s">>,
      dateTime |-> "14, Jan, 2025 - 05:00 PM", status |-> "Delivered"],
     [id |-> "13", type |-> "Text", space |-> "PX 230 X 500",
      country |-> <<"P","a","l","e","s","t","i","n","e">>,
      city |-> <<"G","a","z","a">>,
      dateTime |-> "14, Jan, 2025 - 04:25 PM", status |-> "In Progress"],
     [id |-> "14", type |-> "Photo", space |-> "230 X 500 PX",
      country |-> <<"L","i","b","y","a">>,
      city |-> <<"T","r","i","p","o","l","i">>,
      dateTime |-> "14, Jan, 2025 - 03:50 PM", status |-> "Cancelled"],
     [id |-> "15", type |-> "Text", space |-> "PX 230 X 500",
      country |-> <<"T","u","n","i","s","i","a">>,
      city |-> <<"T","u","n","i","s">>,
      dateTime |-> "14, Jan, 2025 - 03:15 PM", status |-> "Delivered"] >>

\* a store the query specification may start from: distinct records of the
\* pool below, in any order
RecordPool ==
  { [id |-> "1", type |-> "Photo", space |-> "230 X 500 PX",
     country |-> <<"O","m","a","n">>, city |-> <<"M","u","s","c","a","t">>,
     dateTime |-> "14, Jan, 2025 - 08:20 PM", status |-> "Delivered"],
    [id |-> "2", type |-> "Text", space |-> "PX 230 X 500",
     country |-> <<"Y","e","m","e","n">>, city |-> <<"S","a","n","a","a">>,
     dateTime |-> "14, Jan, 2025 - 05:35 PM", status |-> "Delivered"],
    [id |-> "3", type |-> "Photo", space |-> "230 X 500 PX",
     country |-> <<"I","r","a","q">>, city |-> <<"B","a","g","h","d","a","d">>,
     dateTime |-> "14, Jan, 2025 - 06:10 PM", status |-> "In Progress"],
    [id |-> "4", type |-> "Photo", space |-> "230 X 500 PX",
     country |-> <<"J","o","r","d","a","n">>, city |-> <<"A","m","m","a","n">>,
     dateTime |-> "14, Jan, 2025 - 07:15 PM", status |-> "Cancelled"] }

IsInjective(seq) == \A i, j \in 1..Len(seq) : seq[i] = seq[j] => i = j

SmallStores ==
  UNION { { seq \in [1..n -> RecordPool] : IsInjective(seq) } : n \in 0..MaxRecords }

---------------------------------------------------------------------------
(* Requests.                                                               *)

\* the object with no field, and the object with the one field k
NoField == [k \in {} |-> k]
OneField(k, v) == [x \in {k} |-> v]
Optional(k, values) == {NoField} \cup { OneField(k, v) : v \in values }

\* URLSearchParams.get: the value, or null (modelled as "not in the domain")
Has(searchParams, k) == k \in DOMAIN searchParams

\* JavaScript truthiness of a string-valued parameter that may be null
TruthySeq(searchParams, k) == Has(searchParams, k) /\ searchParams[k] # <<>>
TruthyAtom(searchParams, k) == Has(searchParams, k) /\ searchParams[k] # ""

PageParams ==
  { <<>>, <<"a","b","c">>, <<"-","1">>, <<"0">>, <<"1">>, <<"2">>, <<"3">> }
LimitParams ==
  { <<>>, <<"a","b","c">>, <<"-","2">>, <<"0">>, <<"1">>, <<"2">> }
QueryParams == { <<"O","M">>, <<"a","n">> }
StatusParams == { "Delivered" }
TypeParams == { "Photo" }
SortParams == { "status" }
OrderParams == { "desc" }

ListRequests ==
  { Spread(q, Spread(st, Spread(ty, Spread(pg, Spread(lm, Spread(so, od)))))) :
      q \in Optional("query", QueryParams),
      st \in Optional("status", StatusParams),
      ty \in Optional("type", TypeParams),
      pg \in Optional("page", PageParams),
      lm \in Optional("limit", LimitParams),
      so \in Optional("sort", SortParams),
      od \in Optional("order", OrderParams) }

---------------------------------------------------------------------------
(* GET of src/app/api/notifications/route.ts: filter, sort, paginate.      *)

\* const page = parseInt(searchParams.get("page") || "1")
PageOf(searchParams) ==
  parseInt(IF TruthySeq(searchParams, "page") THEN searchParams["page"] ELSE <<"1">>)

\* const limit = parseInt(searchParams.get("limit") || "10")
LimitOf(searchParams) ==
  parseInt(IF TruthySeq(searchParams, "limit") THEN searchParams["limit"] ELSE <<"1","0">>)

\* const order = searchParams.get("order") || "asc"
OrderOf(searchParams) ==
  IF TruthyAtom(searchParams, "order") THEN searchParams["order"] ELSE "asc"

\* the search predicate without the lower-casing of the record's fields
MatchesQuery_caseSensitive(notification, query) ==
  \/ includes(notification.country, query)
  \/ includes(notification.city, query)

\* the search predicate: the lower-cased term occurs in the lower-cased
\* country or city
MatchesQuery(notification, query) ==
  \/ includes(toLowerCase(notification.country), query)
  \/ includes(toLowerCase(notification.city), query)

ApplyQuery(arr, searchParams) ==
  IF TruthySeq(searchParams, "query")
  THEN LET query == toLowerCase(searchParams["query"])
           Keep(n) == MatchesQuery(n, query)
       IN SelectSeq(arr, Keep)
  ELSE arr

ApplyStatus(arr, searchParams) ==
  IF TruthyAtom(searchParams, "status")
  THEN LET Keep(n) == n.status = searchParams["status"] IN SelectSeq(arr, Keep)
  ELSE arr

ApplyType(arr, searchParams) ==
  IF TruthyAtom(searchParams, "type")
  THEN LET Keep(n) == n.type = searchParams["type"] IN SelectSeq(arr, Keep)
  ELSE arr

\* the three filter steps in the handler's order, on a copy of the store
Filtered(arr, searchParams) ==
  ApplyType(ApplyStatus(ApplyQuery(arr, searchParams), searchParams), searchParams)

\* aValue > bValue for two field values; a field the record lacks is
\* undefined and compares false with everything
FieldGreater(a, b, sort) ==
  /\ sort \in DOMAIN a /\ sort \in DOMAIN b
  /\ IF sort \in {"country", "city"} THEN SeqLess(b[sort], a[sort])
     ELSE AtomLess(b[sort], a[sort])

\* the comparator handed to Array.prototype.sort
comparator(a, b, sort, order) ==
  IF order = "asc"
  THEN (IF FieldGreater(a, b, sort) THEN 1 ELSE -1)
  ELSE (IF FieldGreater(b, a, sort) THEN 1 ELSE -1)

Arrangements(arr) ==
  { [i \in 1..Len(arr) |-> arr[f[i]]] :
      f \in { g \in [1..Len(arr) -> 1..Len(arr)] : IsInjective(g) } }

\* Array.prototype.sort(comparator).  The comparator never returns 0, so it
\* is not a consistent comparator and the order of the result is left to
\* the engine: any arrangement in which the comparator puts every earlier
\* element before every later one can come out.
SortOutcomes(arr, sort, order) ==
  { p \in Arrangements(arr) :
      \A i, j \in 1..Len(p) : i < j => comparator(p[i], p[j], sort, order) < 0 }

\* if (sort) { filteredNotifications.sort(...) }
Sorted(arr, searchParams) ==
  IF TruthyAtom(searchParams, "sort")
  THEN SortOutcomes(arr, searchParams["sort"], OrderOf(searchParams))
  ELSE {arr}

\* the start index with the page taken as 0-based
StartOf_zeroBased(page, limit) == Times(page, limit)

\* const start = (page - 1) * limit; const end = start + limit
StartOf(page, limit) == Times(Minus1(page), limit)
EndOf(page, limit) == Plus(StartOf(page, limit), limit)

\* filteredNotifications.slice(start, end)
Paginate(arr, page, limit) == slice(arr, StartOf(page, limit), EndOf(page, limit))

\* the metadata object, as NextResponse.json writes it
Metadata(arr, page, limit) ==
  [ total |-> Len(arr),
    page |-> JsonNumber(page),
    limit |-> JsonNumber(limit),
    totalPages |-> JsonNumber(CeilDiv(Len(arr), limit)),
    hasMore |-> LessThanLen(EndOf(page, limit), Len(arr)) ]

\* Each invocation has its own locals: a handler starts from the idle
\* state, and the locals are gone once its response has been sent.
NoRequest == [handler |-> "none"]
NoResponse == [status |-> 0]
Idle == request = NoRequest

spread_alias(store, working) == working

\* let filteredNotifications = [...notifications]: the handler filters and
\* sorts a copy, so the module's array is what it was whatever becomes of the
\* working array
spread(store, working) == store

GET ==
  /\ Idle
  /\ \E searchParams \in ListRequests :
       \E sorted \in Sorted(Filtered(notifications, searchParams), searchParams) :
         /\ request' = [handler |-> "GET", searchParams |-> searchParams]
         /\ filteredNotifications' = sorted
         /\ response' =
              [ status |-> 200,
                data |-> Paginate(sorted, PageOf(searchParams), LimitOf(searchParams)),
                metadata |-> Metadata(sorted, PageOf(searchParams), LimitOf(searchParams)) ]
         /\ notifications' = spread(notifications, sorted)
         /\ UNCHANGED <<uuidCount, writes>>
         /\ UNCHANGED <<clientVars, runtimeVars>>

\* return NextResponse.json(...): the response leaves, the invocation ends
Return ==
  /\ ~Idle
  /\ request' = NoRequest
  /\ filteredNotifications' = <<>>
  /\ response' = NoResponse
  /\ UNCHANGED <<notifications, uuidCount, writes>>
  /\ UNCHANGED <<clientVars, runtimeVars>>

---------------------------------------------------------------------------
(* The handlers of the mock route with record ids (unnamed/part_003).      *)

PagedRequests ==
  { Spread(pg, lm) : pg \in Optional("page", PageParams),
                     lm \in Optional("limit", LimitParams) }

\* const page = Number(pageParam ?? "1")
PageOf_part003(searchParams) ==
  Number(IF Has(searchParams, "page") THEN searchParams["page"] ELSE <<"1">>)

\* const limit = Number(limitParam ?? "10")
LimitOf_part003(searchParams) ==
  Number(IF Has(searchParams, "limit") THEN searchParams["limit"] ELSE <<"1","0">>)

Metadata_part003(arr, page, limit) ==
  [ total |-> Len(arr),
    page |-> JsonNumber(page),
    limit |-> JsonNumber(limit),
    totalPages |-> JsonNumber(CeilDiv(Len(arr), limit)) ]

GET_part003 ==
  /\ Idle
  /\ \E searchParams \in PagedRequests :
       /\ request' = [handler |-> "GET_part003", searchParams |-> searchParams]
       /\ response' =
            [ status |-> 200,
              data |-> Paginate(notifications, PageOf_part003(searchParams),
                                LimitOf_part003(searchParams)),
              metadata |-> Metadata_part003(notifications, PageOf_part003(searchParams),
                                            LimitOf_part003(searchParams)) ]
       /\ UNCHANGED <<notifications, filteredNotifications, uuidCount, writes>>
       /\ UNCHANGED <<clientVars, runtimeVars>>

\* JavaScript truthiness of a field of a JSON body: present and not empty
EmptyOf(k) == IF k \in {"country", "city"} THEN <<>> ELSE ""
\* a presence test in place of truthiness: '' passes
Truthy_presentOnly(obj, k) == k \in DOMAIN obj

Truthy(obj, k) == k \in DOMAIN obj /\ obj[k] # EmptyOf(k)

\* crypto.randomUUID(): the n-th identifier it hands out; no two are equal and
\* none equals an id of the fixture
randomUUID(n) == "uuid-" \o ToString(n)

\* new Date().toLocaleString() at the moments a request can arrive
Clock == { "1/2/2026, 9:00:00 AM", "1/2/2026, 9:00:05 AM" }

\* request bodies of POST: complete, without city, with an empty type, with
\* every field of a record, with a type outside 'Photo' | 'Text'
PostBodies ==
  { [type |-> "Text", space |-> "PX 230 X 500", country |-> <<"U","A","E">>,
     city |-> <<"D","u","b","a","i">>],
    [type |-> "Photo", space |-> "230 X 500 PX", country |-> <<"U","A","E">>],
    [type |-> "", space |-> "230 X 500 PX", country |-> <<"U","A","E">>,
     city |-> <<"D","u","b","a","i">>],
    [id |-> "1", type |-> "Photo", space |-> "230 X 500 PX", country |-> <<"O","m","a","n">>,
     city |-> <<"S","u","r">>, dateTime |-> "1/1/2026, 8:00:00 AM", status |-> "Delivered"],
    [type |-> "Video", space |-> "230 X 500 PX", country |-> <<"U","A","E">>,
     city |-> <<"D","u","b","a","i">>] }

\* the record POST builds: the body, a fresh id, the body's dateTime and
\* status when they are truthy
NewNotification(newNotification, uuid, now) ==
  Spread(newNotification,
         [ id |-> uuid,
           dateTime |-> IF Truthy(newNotification, "dateTime")
                        THEN newNotification.dateTime ELSE now,
           status |-> IF Truthy(newNotification, "status")
                      THEN newNotification.status ELSE "In Progress" ])

\* Array.prototype.push in place of unshift
unshift_push(arr, x) == arr \o <<x>>

\* Array.prototype.unshift
unshift(arr, x) == <<x>> \o arr

\* POST from its await on: the body has arrived
POST_run(newNotification, now) ==
  /\ request' = [handler |-> "POST_part003", body |-> newNotification, now |-> now]
  /\ IF ~Truthy(newNotification, "type") \/ ~Truthy(newNotification, "country")
        \/ ~Truthy(newNotification, "city")
     THEN /\ response' = [status |-> 400, error |-> "Missing required fields"]
          /\ UNCHANGED <<notifications, uuidCount, writes>>
     ELSE /\ writes < MaxWrites
          /\ LET notification ==
                   NewNotification(newNotification, randomUUID(uuidCount + 1), now)
             IN /\ notifications' = unshift(notifications, notification)
                /\ response' = [status |-> 201, body |-> notification]
          /\ uuidCount' = uuidCount + 1
          /\ writes' = writes + 1
  /\ UNCHANGED filteredNotifications
  /\ UNCHANGED clientVars

\* a POST whose body is there at once
POST_part003 ==
  /\ Idle
  /\ \E newNotification \in PostBodies, now \in Clock : POST_run(newNotification, now)
  /\ UNCHANGED runtimeVars

\* the id parameters of DELETE and PUT: none, ids of the fixture, an unknown id
IdRequests == Optional("id", {"1", "2", "99"})

\* Array.prototype.splice(index, 1), index 1-based
splice(arr, index) == SubSeq(arr, 1, index - 1) \o SubSeq(arr, index + 1, Len(arr))

\* DELETE for a given query string
DELETE_run(searchParams) ==
  /\ request' = [handler |-> "DELETE_part003", searchParams |-> searchParams]
  /\ IF ~TruthyAtom(searchParams, "id")
     THEN /\ response' = [status |-> 400, error |-> "Missing notification ID"]
          /\ UNCHANGED <<notifications, writes>>
     ELSE LET index == findIndex(notifications, searchParams["id"])
          IN IF index = 0
             THEN /\ response' = [status |-> 404, error |-> "Notification not found"]
                  /\ UNCHANGED <<notifications, writes>>
             ELSE /\ writes < MaxWrites
                  /\ notifications' = splice(notifications, index)
                  /\ response' = [status |-> 200, success |-> TRUE]
                  /\ writes' = writes + 1
  /\ UNCHANGED <<filteredNotifications, uuidCount>>
  /\ UNCHANGED clientVars

DELETE_part003 ==
  /\ Idle
  /\ \E searchParams \in IdRequests : DELETE_run(searchParams)
  /\ UNCHANGED runtimeVars

\* request bodies of PUT: a status, a status outside the three of the type,
\* an id, a city with a dateTime
PutBodies ==
  { [status |-> "Cancelled"],
    [status |-> "Bogus"],
    [id |-> "2"],
    [city |-> <<"J","e","d","d","a","h">>, dateTime |-> "1/1/2026, 8:00:00 AM"] }

\* the spread with dateTime first: a dateTime of the body wins
Updated_bodyDateTimeWins(notification, updates, now) ==
  Spread(Spread(notification, [dateTime |-> now]), updates)

\* { ...notifications[index], ...updates, dateTime: new Date().toLocaleString() }
Updated(notification, updates, now) ==
  Spread(Spread(notification, updates), [dateTime |-> now])

\* PUT from its await on: the body has arrived
PUT_run(searchParams, updates, now) ==
  /\ request' = [handler |-> "PUT_part003", searchParams |-> searchParams,
                 body |-> updates, now |-> now]
  /\ IF ~TruthyAtom(searchParams, "id")
     THEN /\ response' = [status |-> 400, error |-> "Missing notification ID"]
          /\ UNCHANGED <<notifications, writes>>
     ELSE LET index == findIndex(notifications, searchParams["id"])
          IN IF index = 0
             THEN /\ response' = [status |-> 404, error |-> "Notification not found"]
                  /\ UNCHANGED <<notifications, writes>>
             ELSE /\ writes < MaxWrites
                  /\ notifications' =
                       [notifications EXCEPT
                          ![index] = Updated(notifications[index], updates, now)]
                  /\ response' =
                       [status |-> 200,
                        body |-> Updated(notifications[index], updates, now)]
                  /\ writes' = writes + 1
  /\ UNCHANGED <<filteredNotifications, uuidCount>>
  /\ UNCHANGED clientVars

\* a PUT whose body is there at once
PUT_part003 ==
  /\ Idle
  /\ \E searchParams \in IdRequests, updates \in PutBodies, now \in Clock :
       PUT_run(searchParams, updates, now)
  /\ UNCHANGED runtimeVars

\* POST up to `await req.json()`: the invocation waits for its body
POST_await ==
  /\ Idle
  /\ writes + Cardinality(suspended) < MaxWrites
  /\ \E newNotification \in PostBodies :
       LET invocation == [handler |-> "POST_part003", body |-> newNotification]
       IN /\ invocation \notin suspended
          /\ suspended' = suspended \cup {invocation}
  /\ UNCHANGED <<serverVars, clientVars, cached, connectionPromise, attempts>>

\* PUT up to `await req.json()`: id is read, the invocation waits for its body
PUT_await ==
  /\ Idle
  /\ writes + Cardinality(suspended) < MaxWrites
  /\ \E searchParams \in IdRequests, updates \in PutBodies :
       LET invocation == [handler |-> "PUT_part003", searchParams |-> searchParams,
                          body |-> updates]
       IN /\ invocation \notin suspended
          /\ suspended' = suspended \cup {invocation}
  /\ UNCHANGED <<serverVars, clientVars, cached, connectionPromise, attempts>>

\* a waiting POST goes on, in one piece up to its return
POST_resume ==
  /\ Idle
  /\ \E invocation \in suspended, now \in Clock :
       /\ invocation.handler = "POST_part003"
       /\ POST_run(invocation.body, now)
       /\ suspended' = suspended \ {invocation}
  /\ UNCHANGED <<cached, connectionPromise, attempts>>

\* a waiting PUT goes on, in one piece up to its return
PUT_resume ==
  /\ Idle
  /\ \E invocation \in suspended, now \in Clock :
       /\ invocation.handler = "PUT_part003"
       /\ PUT_run(invocation.searchParams, invocation.body, now)
       /\ suspended' = suspended \ {invocation}
  /\ UNCHANGED <<cached, connectionPromise, attempts>>

---------------------------------------------------------------------------
(* The client table: address, page and page size                           *)
(* (data-table.tsx, data-table-pagination.tsx, notification-table.tsx).    *)

\* String(n) of an integer
RECURSIVE Digits(_)
Digits(n) ==
  IF n < 10 THEN <<DigitChars[n + 1]>>
  ELSE Digits(n \div 10) \o <<DigitChars[(n % 10) + 1]>>

String(x) ==
  IF ~IsNum(x) THEN <<"N","a","N">>
  ELSE IF x.v < 0 THEN <<"-">> \o Digits(-x.v) ELSE Digits(x.v)

\* a || b on numbers: 0 and NaN are falsy
Or(a, b) == IF IsNum(a) /\ a.v = 0 THEN b ELSE IF a = NaN THEN b ELSE a

\* Number(searchParams.get(k)): Number(null) is 0
NumberOfParam(params, k) == IF Has(params, k) THEN Number(params[k]) ELSE Num(0)

\* DataTable: const page = Number(searchParams.get('page')) || 1
page(params) == Or(NumberOfParam(params, "page"), Num(1))
\* DataTable: const pageSize = Number(searchParams.get('limit')) || 10
pageSize(params) == Or(NumberOfParam(params, "limit"), Num(10))
\* the table's state.pagination.pageIndex: page - 1
pageIndex(params) == Minus1(page(params))

\* the props the page component passes: Number(page ?? 1), Number(limit ?? 10)
initialPage(params) == IF Has(params, "page") THEN Number(params["page"]) ELSE Num(1)
initialLimit(params) == IF Has(params, "limit") THEN Number(params["limit"]) ELSE Num(10)

\* NotificationTable: the params of useNotifications({ page, limit })
FetchParams(params) ==
  [ page |-> Or(NumberOfParam(params, "page"), initialPage(params)),
    limit |-> Or(NumberOfParam(params, "limit"), initialLimit(params)) ]

\* a query key that does not depend on the params
notificationsQueryKey_fixed(params) ==
  <<"notifications", [page |-> Num(1), limit |-> Num(10)]>>

\* notificationsQueryKey(params): ['notifications', params]
notificationsQueryKey(params) == <<"notifications", params>>

\* createQueryString on an empty URLSearchParams
createQueryString_fromEmpty(params, newPage, newLimit) ==
  [page |-> String(newPage), limit |-> String(newLimit)]

\* createQueryString({ page, limit }): the current search params with page
\* and limit set to String(value)
createQueryString(params, newPage, newLimit) ==
  Spread(params, [page |-> String(newPage), limit |-> String(newLimit)])

\* const pageSizeOptions = [10, 20, 30, 40, 50]: the sizes the model selects
pageSizeOptions == { 10, 20 }

\* the addresses the table is opened with
Locations ==
  { NoField,
    [page |-> <<"2">>],
    [page |-> <<"2">>, limit |-> <<"5">>, tab |-> <<"a","l","l">>],
    [page |-> <<"a","b","c">>, limit |-> <<"a","b","c">>, tab |-> <<"a","l","l">>] }

---------------------------------------------------------------------------
(* The query cache behind useNotifications (hooks/use-notifications,       *)
(* services/notifications): one query per query key.                       *)

\* data of a query that has none
Undefined == [kind |-> "undefined"]
\* lastQueryWithDefinedData before any query had data
NoQuery == <<"none">>

\* a query as the cache creates it
NewQuery ==
  [status |-> "pending", data |-> Undefined, fetchStatus |-> "idle", isInvalidated |-> FALSE]

QueryOf(cache, key) == IF key \in DOMAIN cache THEN cache[key] ELSE NewQuery

Put(cache, key, query) ==
  [k \in (DOMAIN cache) \cup {key} |-> IF k = key THEN query ELSE cache[k]]

\* getNotifications(params): page and limit go into the request when truthy;
\* the list endpoint answers with Number(page) || 1, Number(limit) || 10
RequestOf(params) ==
  [ page |-> Or(params.page, Num(1)), limit |-> Or(params.limit, Num(10)) ]

\* the rows of a response, each by its id and status
Rows(rows) == [i \in 1..Len(rows) |-> [id |-> rows[i].id, status |-> rows[i].status]]

\* response.json() of the list endpoint for the store at the time it answers
NotificationsResponse(store, params) ==
  [ data |-> Rows(Paginate(store, RequestOf(params).page, RequestOf(params).limit)),
    metadata |->
      [ currentPage |-> RequestOf(params).page,
        totalPages |-> CeilDiv(Len(store), RequestOf(params).limit),
        pageSize |-> RequestOf(params).limit,
        totalCount |-> Len(store) ] ]

\* the query starts fetching: a query without data goes back to pending
fetchState(query) ==
  [ status |-> IF query.data = Undefined THEN "pending" ELSE query.status,
    data |-> query.data,
    fetchStatus |-> "fetching",
    isInvalidated |-> query.isInvalidated ]

\* the request of this key whose answer the query still waits for
Live(key) == { r \in inflight : r.key = key /\ r.live }

\* query.fetch() of a query that is idle: a request leaves
Fetch(key) ==
  /\ fetchCount < MaxFetches
  /\ queries' = Put(queries, key, fetchState(QueryOf(queries, key)))
  /\ inflight' = inflight \cup {[key |-> key, id |-> fetchCount + 1, live |-> TRUE]}
  /\ fetchCount' = fetchCount + 1

\* cancel({ silent: true }): the queryFn ignores the abort signal, so the
\* request goes on and its answer is dropped
cancel(requests, key) ==
  { IF r.key = key THEN [r EXCEPT !.live = FALSE] ELSE r : r \in requests }

\* a refetch that asks for the first page of ten, whatever the key
refetch_firstPage(key) ==
  Fetch(notificationsQueryKey([page |-> Num(1), limit |-> Num(10)]))

\* refetch() of the current query (cancelRefetch: true): a fetch that is
\* running is cancelled and replaced when the query has data, and joined
\* when it has none
refetch(key) ==
  LET query == QueryOf(queries, key)
  IN IF query.fetchStatus = "idle" THEN Fetch(key)
     ELSE IF query.data = Undefined
     THEN UNCHANGED <<queries, inflight, fetchCount>>
     ELSE /\ fetchCount < MaxFetches
          /\ queries' = Put(queries, key, fetchState(query))
          /\ inflight' = cancel(inflight, key)
                           \cup {[key |-> key, id |-> fetchCount + 1, live |-> TRUE]}
          /\ fetchCount' = fetchCount + 1

\* the observer is given this key: it subscribes to the key's query and
\* fetches unless the query is fetching or has data that is not stale
\* (staleTime: 5 minutes, `stale` says whether they have passed; data that
\* was invalidated is stale)
Observe(key, stale) ==
  LET query == QueryOf(queries, key)
  IN /\ lastQueryWithDefinedData' =
          IF query.data # Undefined THEN key ELSE lastQueryWithDefinedData
     /\ IF /\ query.fetchStatus = "idle"
           /\ (query.data = Undefined \/ stale \/ query.isInvalidated)
        THEN Fetch(key)
        ELSE /\ queries' = Put(queries, key, query)
             /\ UNCHANGED <<inflight, fetchCount>>

\* what useNotifications returns to NotificationTable
CurrentKey == notificationsQueryKey(FetchParams(location))
CurrentQuery == QueryOf(queries, CurrentKey)

\* placeholderData: (prev) => prev, the data of lastQueryWithDefinedData
placeholderData ==
  IF lastQueryWithDefinedData = NoQuery THEN Undefined
  ELSE queries[lastQueryWithDefinedData].data

isPlaceholderData ==
  /\ CurrentQuery.data = Undefined
  /\ CurrentQuery.status = "pending"
  /\ placeholderData # Undefined

data == IF CurrentQuery.data # Undefined THEN CurrentQuery.data
        ELSE IF isPlaceholderData THEN placeholderData ELSE Undefined

resultStatus == IF isPlaceholderData THEN "success" ELSE CurrentQuery.status
\* an isFetching that is never true: the Refresh buttons are never disabled
isFetching_never == FALSE

isFetching == CurrentQuery.fetchStatus = "fetching"

isLoading == isFetching /\ resultStatus = "pending"
isError == resultStatus = "error"

\* what NotificationTable renders: the error view instead of the table, or
\* the table with skeleton rows, with the rows of data, or with "No results."
view ==
  IF isError THEN "error"
  ELSE IF isLoading THEN "skeleton"
  ELSE IF data # Undefined /\ Len(data.data) > 0 THEN "rows"
  ELSE "empty"

\* totalCount={data?.metadata?.totalCount || 0}
totalCountOf(body) ==
  IF "metadata" \in DOMAIN body /\ "totalCount" \in DOMAIN body.metadata
  THEN body.metadata.totalCount
  ELSE 0

totalCount == IF data = Undefined THEN 0 ELSE totalCountOf(data)
\* DataTablePagination: Math.ceil(total / pageSize)
totalPages == CeilDiv(totalCount, pageSize(location))
canPreviousPage == pageIndex(location).v > 0
canNextPage ==
  IsNum(totalPages) /\ pageIndex(location).v < totalPages.v - 1

---------------------------------------------------------------------------
(* The handlers of the client table.                                       *)

\* router.push / <Link>: the address becomes `target` and the table renders
\* with it; a new query key is handed to the observer
navigate(target) ==
  /\ location' = target
  /\ IF notificationsQueryKey(FetchParams(target)) = CurrentKey
     THEN UNCHANGED <<queries, lastQueryWithDefinedData, inflight, fetchCount>>
     ELSE \E stale \in BOOLEAN :
            Observe(notificationsQueryKey(FetchParams(target)), stale)

\* the page a pagination link leads to
LinkPage(link) ==
  CASE link = "first" -> Num(1)
    [] link = "previous" -> pageIndex(location)
    [] link = "next" -> Plus(pageIndex(location), Num(2))
    [] link = "last" -> totalPages

\* onClick: e.preventDefault() unless the link can be followed
LinkAllowed(link) ==
  IF link \in {"first", "previous"} THEN canPreviousPage ELSE canNextPage

\* a click on one of the four pagination links
Link ==
  \E link \in {"first", "previous", "next", "last"} :
    /\ LinkAllowed(link)
    /\ navigate(createQueryString(location, LinkPage(link), pageSize(location)))
    /\ event' = [handler |-> "Link", link |-> link]
    /\ UNCHANGED <<columnFilters, serverVars, runtimeVars>>

\* table.setPageSize(newSize): the pagination state its updater computes
\* from the table's state
setPageSizeUpdater(params, newSize) ==
  [ pageSize |-> Num(IF newSize < 1 THEN 1 ELSE newSize),
    pageIndex |->
      Num((pageSize(params).v * pageIndex(params).v)
            \div (IF newSize < 1 THEN 1 ELSE newSize)) ]

\* handlePageChange(newPage): the address it pushes
handlePageChange(params, newPage) ==
  createQueryString(params, newPage, pageSize(params))

\* handlePageSizeChange without the reset of the page
handlePageSizeChange_keepPage(params, newPageSize) ==
  createQueryString(params, page(params), newPageSize)

\* handlePageSizeChange(newPageSize): the address it pushes
handlePageSizeChange(params, newPageSize) ==
  createQueryString(params, Num(1), newPageSize)

\* onPaginationChange(updater): the addresses it pushes, in order
onPaginationChange(params, state) ==
  <<handlePageChange(params, Plus(state.pageIndex, Num(1)))>>
    \o (IF state.pageSize # pageSize(params)
        THEN <<handlePageSizeChange(params, state.pageSize)>> ELSE <<>>)

Last(seq) == seq[Len(seq)]

\* the page size select: onValueChange -> table.setPageSize(Number(value));
\* the last address pushed is the one the router ends on
setPageSize ==
  \E newSize \in pageSizeOptions :
    /\ navigate(Last(onPaginationChange(location,
                                        setPageSizeUpdater(location, newSize))))
    /\ event' = [handler |-> "setPageSize", value |-> newSize]
    /\ UNCHANGED <<columnFilters, serverVars, runtimeVars>>

\* the values the toolbar sets: the options of the status and type filters
\* and a term typed into the search input of a column
FilterOptions == [status |-> {"Delivered"}, type |-> {"Photo"}, country |-> {"om"}]

\* column.setFilterValue(value) -> onColumnFiltersChange: setColumnFilters
setFilterValue ==
  \E id \in DOMAIN FilterOptions :
    \E value \in FilterOptions[id] \cup {"undefined"} :
      LET others == { f \in columnFilters : f.id # id }
          changed == IF value = "undefined" THEN others
                     ELSE others \cup {[id |-> id, value |-> value]}
      IN /\ changed # columnFilters
         /\ Cardinality(changed) <= MaxFilters
         /\ columnFilters' = changed
         /\ event' = [handler |-> "setFilterValue", id |-> id]
         /\ UNCHANGED <<location, queries, lastQueryWithDefinedData,
                        inflight, fetchCount, serverVars, runtimeVars>>

\* the Refresh buttons: onClick={() => refetch()} disabled={isFetching};
\* they are not rendered while isError
Refresh ==
  /\ ~isError
  /\ ~isFetching
  /\ refetch(CurrentKey)
  /\ event' = [handler |-> "Refresh"]
  /\ UNCHANGED <<location, columnFilters, lastQueryWithDefinedData,
                 serverVars, runtimeVars>>

\* the "Try again" button of the error view: onClick={() => refetch()}
TryAgain ==
  /\ isError
  /\ refetch(CurrentKey)
  /\ event' = [handler |-> "TryAgain"]
  /\ UNCHANGED <<location, columnFilters, lastQueryWithDefinedData,
                 serverVars, runtimeVars>>

\* the invocations of the list handler that serve this request and wait at
\* the handler's delay with the answer they have computed
Serving(r) == { s \in suspended : s.handler = "GET" /\ s.id = r.id }

\* the answer to a list request: the one its handler has computed, or the
\* one it computes now
AnswerOf(r) ==
  IF Serving(r) # {} THEN (CHOOSE s \in Serving(r) : TRUE).answer
  ELSE NotificationsResponse(notifications, r.key[2])

\* a list request is answered 200: the query it belongs to takes the data,
\* unless the fetch was cancelled
onSuccess ==
  \E r \in inflight :
    /\ inflight' = inflight \ {r}
    /\ suspended' = suspended \ Serving(r)
    /\ IF r.live
       THEN /\ queries' = Put(queries, r.key,
                              [ status |-> "success",
                                data |-> AnswerOf(r),
                                fetchStatus |-> "idle",
                                isInvalidated |-> FALSE ])
            /\ lastQueryWithDefinedData' =
                 IF r.key = CurrentKey THEN r.key ELSE lastQueryWithDefinedData
       ELSE UNCHANGED <<queries, lastQueryWithDefinedData>>
    /\ event' = [handler |-> "onSuccess", key |-> r.key]
    /\ UNCHANGED <<location, columnFilters, fetchCount, serverVars>>
    /\ UNCHANGED <<cached, connectionPromise, attempts>>

\* what makes getNotifications throw: a status for which response.ok is
\* false, or fetch itself rejecting
FailureCauses == {400, 404, 500, 0}

\* a list request fails (!response.ok or a network error): the query keeps
\* its data and is in error, unless the fetch was cancelled
onError ==
  \E r \in inflight, cause \in FailureCauses :
    /\ inflight' = inflight \ {r}
    /\ suspended' = suspended \ Serving(r)
    /\ IF r.live
       THEN queries' = Put(queries, r.key,
                           [ status |-> "error",
                             data |-> QueryOf(queries, r.key).data,
                             fetchStatus |-> "idle",
                             isInvalidated |-> QueryOf(queries, r.key).isInvalidated ])
       ELSE UNCHANGED queries
    /\ event' = [handler |-> "onError", key |-> r.key, cause |-> cause]
    /\ UNCHANGED <<location, columnFilters, lastQueryWithDefinedData,
                   fetchCount, serverVars>>
    /\ UNCHANGED <<cached, connectionPromise, attempts>>

---------------------------------------------------------------------------
(* The mutations of the client (hooks of part_017, services of part_002)   *)
(* and the list handler's delay.                                           *)

\* the list handler takes a request, computes its answer and waits at
\* `await new Promise((resolve) => setTimeout(resolve, 1000))`
GET_await ==
  \E r \in inflight :
    /\ r.live
    /\ Serving(r) = {}
    /\ suspended' = suspended \cup
         {[ handler |-> "GET", id |-> r.id,
            answer |-> NotificationsResponse(notifications, r.key[2]) ]}
    /\ UNCHANGED <<serverVars, clientVars, cached, connectionPromise, attempts>>

\* the row whose menu is used: the first row of the table
Clickable == IF view = "rows" THEN {data.data[1]} ELSE {}

\* what the add dialog submits: a complete notification, one without a type
AddBodies == { b \in PostBodies : "id" \notin DOMAIN b /\ b.type \in {"Text", ""} }

\* the time at the server when a mutation is handled
SubmitTime == "1/2/2026, 9:00:05 AM"

\* useAddNotification().mutate(data): POST /api/notifications
addNotification ==
  /\ Idle
  /\ ~isError
  /\ \E newNotification \in AddBodies : POST_run(newNotification, SubmitTime)
  /\ UNCHANGED runtimeVars

\* useDeleteNotification().mutate(id): DELETE /api/notifications?id=
deleteNotification ==
  /\ Idle
  /\ \E row \in Clickable : DELETE_run([id |-> row.id])
  /\ UNCHANGED runtimeVars

\* useUpdateNotification().mutate({ id, data }): PUT /api/notifications?id=
updateNotification ==
  /\ Idle
  /\ \E row \in Clickable :
       PUT_run([id |-> row.id], [status |-> "Cancelled"], SubmitTime)
  /\ UNCHANGED runtimeVars

\* queryClient.invalidateQueries({ queryKey: ['notifications'] }): every
\* list query is marked invalidated, and the active one (the one the table
\* observes) is refetched as by refetch()
invalidateQueries ==
  LET marked == [k \in DOMAIN queries |-> [queries[k] EXCEPT !.isInvalidated = TRUE]]
      query == marked[CurrentKey]
  IN IF query.fetchStatus = "fetching" /\ query.data = Undefined
     THEN /\ queries' = marked
          /\ UNCHANGED <<inflight, fetchCount>>
     ELSE /\ fetchCount < MaxFetches
          /\ queries' = Put(marked, CurrentKey, fetchState(query))
          /\ inflight' = cancel(inflight, CurrentKey)
                           \cup {[key |-> CurrentKey, id |-> fetchCount + 1, live |-> TRUE]}
          /\ fetchCount' = fetchCount + 1

\* the handlers a mutation calls
MutationHandlers == {"POST_part003", "DELETE_part003", "PUT_part003"}

\* the mutation's request was answered with response.ok: onSuccess
onMutationSuccess ==
  /\ request # NoRequest
  /\ request.handler \in MutationHandlers
  /\ response.status \in {200, 201}
  /\ invalidateQueries
  /\ request' = NoRequest
  /\ response' = NoResponse
  /\ event' = [handler |-> "onMutationSuccess"]
  /\ UNCHANGED <<notifications, filteredNotifications, uuidCount, writes>>
  /\ UNCHANGED <<location, columnFilters, lastQueryWithDefinedData, runtimeVars>>

\* the mutation's request was answered without response.ok: the service
\* throws, onError shows a toast
onMutationError ==
  /\ request # NoRequest
  /\ request.handler \in MutationHandlers
  /\ response.status \notin {200, 201}
  /\ request' = NoRequest
  /\ response' = NoResponse
  /\ event' = [handler |-> "onMutationError"]
  /\ UNCHANGED <<notifications, filteredNotifications, uuidCount, writes>>
  /\ UNCHANGED <<location, columnFilters, queries, lastQueryWithDefinedData,
                 inflight, fetchCount, runtimeVars>>

\* nothing waits at an await, and the mongoose route has not been called
NoRuntime ==
  /\ suspended = {}
  /\ cached = [conn |-> "null", promise |-> 0]
  /\ connectionPromise = [kind |-> "null"]
  /\ attempts = <<>>

\* no page of the client is open
NoClient ==
  /\ location = NoField
  /\ columnFilters = {}
  /\ queries = NoField
  /\ lastQueryWithDefinedData = NoQuery
  /\ inflight = {}
  /\ fetchCount = 0
  /\ event = [handler |-> "none"]

---------------------------------------------------------------------------
(* Specifications.                                                         *)

\* the list endpoints on any small store
InitQuery ==
  /\ notifications \in SmallStores
  /\ request = NoRequest
  /\ filteredNotifications = <<>>
  /\ response = NoResponse
  /\ uuidCount = 0
  /\ writes = 0
  /\ NoClient
  /\ NoRuntime

NextQuery == GET \/ GET_part003 \/ Return

SpecQuery == InitQuery /\ [][NextQuery]_vars

\* the mock store with record ids, from its fixture
Init ==
  /\ notifications = Fixture
  /\ request = NoRequest
  /\ filteredNotifications = <<>>
  /\ response = NoResponse
  /\ uuidCount = 0
  /\ writes = 0
  /\ NoClient
  /\ NoRuntime

Next == GET_part003 \/ POST_part003 \/ DELETE_part003 \/ PUT_part003 \/ Return

Spec == Init /\ [][Next]_vars

\* the client table on the fixture: the page is opened at an address and the
\* hook mounts, which sends the first list request
InitClient ==
  /\ notifications = Fixture
  /\ request = NoRequest
  /\ filteredNotifications = <<>>
  /\ response = NoResponse
  /\ uuidCount = 0
  /\ writes = 0
  /\ location \in Locations
  /\ columnFilters = {}
  /\ queries = Put(NoField, CurrentKey, fetchState(NewQuery))
  /\ lastQueryWithDefinedData = NoQuery
  /\ inflight = {[key |-> CurrentKey, id |-> 1, live |-> TRUE]}
  /\ fetchCount = 1
  /\ event = [handler |-> "mount"]
  /\ NoRuntime

NextClient ==
  \/ Link
  \/ setPageSize
  \/ Refresh
  \/ TryAgain
  \/ onSuccess
  \/ onError

SpecClient == InitClient /\ [][NextClient]_vars

\* the client table with the toolbar's column filters
NextFilter ==
  \/ setFilterValue
  \/ Link
  \/ setPageSize
  \/ onSuccess
  \/ onError

SpecFilter == InitClient /\ [][NextFilter]_vars

---------------------------------------------------------------------------
(* The mongoose route and its connection (part_004, lib/dbConnect.ts).     *)

MaxAttempts == 2
MaxWaiting == 2

\* null, for a variable that holds a promise
Null == [kind |-> "null"]

\* mongoose.connection.readyState, as the connect calls have left it
readyState ==
  IF attempts = <<>> THEN "disconnected"
  ELSE IF attempts[Len(attempts)] = "pending" THEN "connecting"
  ELSE IF attempts[Len(attempts)] = "connected" THEN "connected"
  ELSE "disconnected"

\* the connect calls that have not settled
Pending == {i \in 1..Len(attempts) : attempts[i] = "pending"}

dbConnect_always ==
  /\ Len(attempts) < MaxAttempts
  /\ attempts' = Append(attempts, "pending")
  /\ cached' = [cached EXCEPT !.promise = Len(attempts) + 1]
  /\ connectionPromise' = [attempt |-> Len(attempts) + 1, returned |-> "connect"]

\* connectionPromise = dbConnect(): the call runs up to its first await.
\* The promise it returns is fulfilled at once with the cached connection
\* (attempt 0), or follows the connect call whose promise is cached, or
\* follows the connect call it makes itself.
dbConnect ==
  IF cached.conn # "null"
  THEN /\ connectionPromise' = [attempt |-> 0, returned |-> "cached.conn"]
       /\ UNCHANGED <<cached, attempts>>
  ELSE IF cached.promise # 0
  THEN /\ connectionPromise' = [attempt |-> cached.promise, returned |-> "cached.promise"]
       /\ UNCHANGED <<cached, attempts>>
  ELSE /\ Len(attempts) < MaxAttempts
       /\ attempts' = Append(attempts, "pending")
       /\ cached' = [cached EXCEPT !.promise = Len(attempts) + 1]
       /\ connectionPromise' = [attempt |-> Len(attempts) + 1, returned |-> "connect"]

\* the state of a promise dbConnect() returned
Settled(promise) ==
  IF promise.attempt = 0 THEN "fulfilled"
  ELSE IF attempts[promise.attempt] = "pending" THEN "pending"
  ELSE IF attempts[promise.attempt] = "failed" THEN "rejected"
  ELSE "fulfilled"

\* every handler starts the same way:
\* if (!connectionPromise) connectionPromise = dbConnect(); await connectionPromise
awaitConnection(handler) ==
  /\ Cardinality(suspended) < MaxWaiting
  /\ IF connectionPromise = Null
     THEN dbConnect
     ELSE UNCHANGED <<cached, connectionPromise, attempts>>
  /\ LET invocation == [handler |-> handler, awaits |-> connectionPromise']
     IN /\ invocation \notin suspended
        /\ suspended' = suspended \cup {invocation}
  /\ UNCHANGED <<serverVars, clientVars>>

GET_part004 ==
  /\ Idle
  /\ awaitConnection("GET_part004")

POST_part004 ==
  /\ Idle
  /\ awaitConnection("POST_part004")

DELETE_part004 ==
  /\ Idle
  /\ awaitConnection("DELETE_part004")

PUT_part004 ==
  /\ Idle
  /\ awaitConnection("PUT_part004")

\* the statuses a handler answers with once it is connected
Answers(handler) ==
  CASE handler = "GET_part004" -> {200}
    [] handler = "POST_part004" -> {201, 400}
    [] handler = "DELETE_part004" -> {200, 400, 404}
    [] handler = "PUT_part004" -> {200, 400, 404}

\* the awaited promise has settled: the handler goes on to its queries, or
\* to its catch block when the promise was rejected or a query fails
\* (bufferCommands: false) because the connection is down
resume_part004 ==
  /\ Idle
  /\ \E invocation \in suspended :
       /\ Settled(invocation.awaits) # "pending"
       /\ suspended' = suspended \ {invocation}
       /\ request' = [handler |-> invocation.handler]
       /\ IF Settled(invocation.awaits) = "rejected" \/ readyState # "connected"
          THEN response' = [status |-> 500]
          ELSE \E status \in Answers(invocation.handler) :
                 response' = [status |-> status]
  /\ UNCHANGED <<notifications, filteredNotifications, uuidCount, writes>>
  /\ UNCHANGED <<clientVars, cached, connectionPromise, attempts>>

\* mongoose.connect resolves: `cached.conn = await cached.promise` goes on
connected ==
  \E i \in Pending :
    /\ attempts' = [attempts EXCEPT ![i] = "connected"]
    /\ cached' = [cached EXCEPT !.conn = "mongoose"]
    /\ UNCHANGED <<serverVars, clientVars, suspended, connectionPromise>>

\* mongoose.connect rejects: .catch clears cached.promise and rethrows, the
\* catch block of dbConnect clears both fields
failed ==
  \E i \in Pending :
    /\ attempts' = [attempts EXCEPT ![i] = "failed"]
    /\ cached' = [conn |-> "null", promise |-> 0]
    /\ UNCHANGED <<serverVars, clientVars, suspended, connectionPromise>>

\* mongoose.connection.on('error'), on a connection that is up
onConnectionError ==
  /\ readyState = "connected"
  /\ cached' = [conn |-> "null", promise |-> 0]
  /\ UNCHANGED <<serverVars, clientVars, suspended, connectionPromise, attempts>>

\* mongoose.connection.on('disconnected')
onDisconnected ==
  /\ readyState = "connected"
  /\ attempts' = [attempts EXCEPT ![Len(attempts)] = "disconnected"]
  /\ cached' = [cached EXCEPT !.conn = "null"]
  /\ UNCHANGED <<serverVars, clientVars, suspended, connectionPromise>>

\* the route module is evaluated again (a new server instance or a reload in
\* development): its own promise starts as null, global.mongooseCache stays
reload ==
  /\ connectionPromise # Null
  /\ connectionPromise' = Null
  /\ UNCHANGED <<serverVars, clientVars, suspended, cached, attempts>>

NextDb ==
  \/ GET_part004
  \/ POST_part004
  \/ DELETE_part004
  \/ PUT_part004
  \/ resume_part004
  \/ connected
  \/ failed
  \/ onConnectionError
  \/ onDisconnected
  \/ reload
  \/ Return

SpecDb == Init /\ [][NextDb]_vars

\* addresses of the first page of ten and of the last page of seven
PagesLocations == { NoField, [page |-> <<"3">>, limit |-> <<"7">>] }

\* the client table on the fixture, opened at one of these addresses
InitPages ==
  /\ notifications = Fixture
  /\ request = NoRequest
  /\ filteredNotifications = <<>>
  /\ response = NoResponse
  /\ uuidCount = 0
  /\ writes = 0
  /\ location \in PagesLocations
  /\ columnFilters = {}
  /\ queries = Put(NoField, CurrentKey, fetchState(NewQuery))
  /\ lastQueryWithDefinedData = NoQuery
  /\ inflight = {[key |-> CurrentKey, id |-> 1, live |-> TRUE]}
  /\ fetchCount = 1
  /\ event = [handler |-> "mount"]
  /\ NoRuntime

\* the client table with its dialogs, opened at /notifications
InitMutate ==
  /\ InitPages
  /\ location = NoField

NextMutate ==
  \/ Link
  \/ addNotification
  \/ deleteNotification
  \/ updateNotification
  \/ onMutationSuccess
  \/ onMutationError
  \/ GET_await
  \/ onSuccess

SpecMutate == InitMutate /\ [][NextMutate]_vars

\* the client table with its pagination controls and the delete dialog
NextPages ==
  \/ Link
  \/ setPageSize
  \/ deleteNotification
  \/ onMutationSuccess
  \/ onMutationError
  \/ onSuccess

SpecPages == InitPages /\ [][NextPages]_vars

\* the mock store's handlers with their awaits: invocations overlap
NextAwait ==
  \/ POST_await
  \/ PUT_await
  \/ POST_resume
  \/ PUT_resume
  \/ DELETE_part003
  \/ Return

SpecAwait == Init /\ [][NextAwait]_vars

---------------------------------------------------------------------------
(* Vocabulary of the properties.                                           *)

\* a successful answer of a list handler is in hand
ListRequested == request.handler \in {"GET", "GET_part003"}
ListAnswered == ListRequested /\ response.status = 200

\* the sequence the handler paginated
Listed == IF request.handler = "GET" THEN filteredNotifications ELSE notifications

\* page k (k >= 1) of size p (p >= 1) of seq: the elements at the 1-based
\* positions (k-1)p+1 .. kp that exist
WindowLen(seq, k, p) ==
  IF Len(seq) <= (k - 1) * p THEN 0
  ELSE IF Len(seq) >= k * p THEN p
  ELSE Len(seq) - (k - 1) * p
Window(seq, k, p) == [i \in 1..WindowLen(seq, k, p) |-> seq[(k - 1) * p + i]]

\* number of pages of size p that n records fill
PageCount(n, p) == CHOOSE c \in 0..n : c * p >= n /\ (c = 0 \/ (c - 1) * p < n)

\* pages 1..k of size p, as the handler slices them, one after the other
RECURSIVE PagesUpTo(_, _, _)
PagesUpTo(seq, k, p) ==
  IF k = 0 THEN <<>>
  ELSE PagesUpTo(seq, k - 1, p) \o Paginate(seq, Num(k), Num(p))

\* raw query-string values read as decimal numerals
AllDigits(s) == s # <<>> /\ \A i \in 1..Len(s) : s[i] \in {"0","1","2","3","4","5","6","7","8","9"}
IsNumeral(s) == AllDigits(s) \/ (Len(s) > 1 /\ s[1] = "-" /\ AllDigits(Tail(s)))
IsZeroNumeral(s) == IsNumeral(s) /\ \A i \in 1..Len(s) : s[i] \in {"0", "-"}
IsNegativeNumeral(s) == IsNumeral(s) /\ s[1] = "-" /\ ~IsZeroNumeral(s)
IsPositiveNumeral(s) == IsNumeral(s) /\ ~IsZeroNumeral(s) /\ ~IsNegativeNumeral(s)

Param(k) == request.searchParams[k]
ParamGiven(k) == k \in DOMAIN request.searchParams

\* two characters that are the same letter in either case, or the same character
SameIgnoringCase(c, d) ==
  \/ c = d
  \/ \E i \in 1..Len(UpperChars) :
       {c, d} = {UpperChars[i], LowerChars[i]}

\* term occurs in text, letter case ignored
OccursIgnoringCase(term, text) ==
  \E off \in 0..(Len(text) - Len(term)) :
    \A j \in 1..Len(term) : SameIgnoringCase(term[j], text[off + j])

\* the records of the store that pass every predicate the request carries
Passes(n) ==
  /\ ParamGiven("query") /\ Param("query") # <<>> =>
       OccursIgnoringCase(Param("query"), n.country) \/ OccursIgnoringCase(Param("query"), n.city)
  /\ ParamGiven("status") /\ Param("status") # "" => n.status = Param("status")
  /\ ParamGiven("type") /\ Param("type") # "" => n.type = Param("type")

PassingPositions == { i \in 1..Len(notifications) : Passes(notifications[i]) }

\* seq lists exactly the store's records at the positions pos, in store order
IsSubsequenceAt(seq, pos) ==
  /\ Len(seq) = Cardinality(pos)
  /\ \E f \in [1..Len(seq) -> pos] :
       /\ \A i, j \in 1..Len(seq) : i < j => f[i] < f[j]
       /\ \A i \in 1..Len(seq) : seq[i] = notifications[f[i]]

---------------------------------------------------------------------------
(* Properties of the list endpoint.                                        *)

\* C1: for a page size p > 0 the slices returned for pages 1..ceil(n/p) of the
\* filtered and sorted sequence are its consecutive windows: the answer to a
\* request for page k >= 1 is window k, and the pages 1..ceil(n/p) laid end to
\* end give the sequence back (15 records, size 10: 10 on page 1, 5 on page 2).
C1_PagesAreConsecutiveWindows ==
  /\ ListAnswered =>
       LET k == response.metadata.page
           q == response.metadata.limit
       IN (IsNum(k) /\ IsNum(q) /\ k.v >= 1 /\ q.v >= 1) =>
            response.data = Window(Listed, k.v, q.v)
  /\ \A p \in 1..(Len(Listed) + 1) :
       PagesUpTo(Listed, PageCount(Len(Listed), p), p) = Listed
  /\ Len(Paginate(Fixture, Num(1), Num(10))) = 10
  /\ Len(Paginate(Fixture, Num(2), Num(10))) = 5
  /\ PagesUpTo(Fixture, 2, 10) = Fixture

\* a second page that is shorter than the page size has been returned
C1_Witness ==
  /\ ListAnswered
  /\ response.metadata.page = Num(2) /\ response.metadata.limit = Num(2)
  /\ Len(Listed) = 3 /\ Len(response.data) = 1

\* C2: for every list query the metadata's total count is the number of
\* records that pass the filters, and totalPages is ceil(totalCount / pageSize),
\* which is 0 when the total count is 0.
C2_MetadataCounts ==
  ListAnswered =>
    /\ response.metadata.total = Cardinality(PassingPositions)
    /\ response.metadata.total = 0 => response.metadata.totalPages = Num(0)
    /\ IsNum(response.metadata.limit) /\ response.metadata.limit.v # 0 =>
         LET n == response.metadata.total
             p == response.metadata.limit.v
             t == response.metadata.totalPages
         IN /\ IsNum(t)
            /\ IF p > 0 THEN t.v * p >= n /\ (t.v - 1) * p < n
                        ELSE t.v * p <= n /\ (t.v - 1) * p > n

\* C2, for the requests whose page size is a positive number
C2_MetadataCountsPositiveLimit ==
  ListAnswered /\ IsNum(response.metadata.limit) /\ response.metadata.limit.v > 0 =>
    /\ response.metadata.total = Cardinality(PassingPositions)
    /\ response.metadata.totalPages =
         Num(PageCount(response.metadata.total, response.metadata.limit.v))

\* C3: the filter step yields exactly the store's records that satisfy all the
\* predicates the request carries, in store order; a predicate that is absent
\* excludes nothing.  (With a sort key the same records come out, reordered.)
C3_FilterIsConjunction ==
  ListAnswered =>
    IF ParamGiven("sort") /\ Param("sort") # ""
    THEN \E seq \in Arrangements(Listed) : IsSubsequenceAt(seq, PassingPositions)
    ELSE IsSubsequenceAt(Listed, PassingPositions)

\* all three predicates given, matched through a difference of letter case,
\* some records kept and some dropped
C3_Witness ==
  /\ ListAnswered
  /\ ParamGiven("query") /\ ParamGiven("status") /\ ParamGiven("type")
  /\ ~ParamGiven("sort")
  /\ Len(Listed) = 1 /\ Len(notifications) = 3
  /\ \A text \in {Listed[1].country, Listed[1].city} :
       ~includes(text, Param("query")) /\ ~includes(text, toLowerCase(Param("query")))

\* C4: the sort step is stable in both directions: two records with equal
\* values of the sort key keep the relative order they had before the sort.
C4_SortIsStable ==
  ListAnswered /\ ParamGiven("sort") /\ Param("sort") # "" =>
    \A i, j \in 1..Len(Listed) :
      (i < j /\ Listed[i][Param("sort")] = Listed[j][Param("sort")]) =>
        \E a, b \in PassingPositions :
          a < b /\ notifications[a] = Listed[i] /\ notifications[b] = Listed[j]

\* C5: a missing, zero or negative page is served as page 1 and a missing limit
\* as page size 10, slice and metadata included.
PageDefaulted ==
  ~ParamGiven("page") \/ IsZeroNumeral(Param("page")) \/ IsNegativeNumeral(Param("page"))

C5_DefaultsServed ==
  ListAnswered =>
    /\ PageDefaulted => response.metadata.page = Num(1)
    /\ ~ParamGiven("limit") => response.metadata.limit = Num(10)
    /\ PageDefaulted /\ ~ParamGiven("limit") => response.data = Window(Listed, 1, 10)
    /\ PageDefaulted /\ ParamGiven("limit") /\ IsPositiveNumeral(Param("limit")) =>
         response.data = Window(Listed, 1, response.metadata.limit.v)

\* C5, for the parameters that are missing
C5_MissingDefaultsServed ==
  ListAnswered =>
    /\ ~ParamGiven("page") => response.metadata.page = Num(1)
    /\ ~ParamGiven("limit") => response.metadata.limit = Num(10)
    /\ ~ParamGiven("page") /\ ~ParamGiven("limit") => response.data = Window(Listed, 1, 10)

\* C6: a limit of 0 or a negative number is rejected with a 400 and yields
\* neither a data slice nor metadata.
C6_NonPositiveLimitRejected ==
  (ListRequested /\ ParamGiven("limit")
     /\ (IsZeroNumeral(Param("limit")) \/ IsNegativeNumeral(Param("limit")))) =>
    /\ response.status = 400
    /\ "data" \notin DOMAIN response /\ "metadata" \notin DOMAIN response

\* C7: a page or limit that is not numeric is answered with a 400, never a 200.
C7_NonNumericRejected ==
  (ListRequested
     /\ \/ ParamGiven("page") /\ Param("page") # <<>> /\ ~IsNumeral(Param("page"))
        \/ ParamGiven("limit") /\ Param("limit") # <<>> /\ ~IsNumeral(Param("limit"))) =>
    response.status = 400

\* C8: a request for a page beyond totalPages is answered successfully with an
\* empty slice, and the metadata still reports the count of matching records.
C8_PageBeyondLastIsEmpty ==
  (ListRequested
     /\ "metadata" \in DOMAIN response
     /\ IsNum(response.metadata.page) /\ IsNum(response.metadata.totalPages)
     /\ response.metadata.page.v > response.metadata.totalPages.v) =>
    /\ response.status = 200
    /\ response.data = <<>>
    /\ response.metadata.total = Cardinality(PassingPositions)

\* C8, for the requests whose page size is a positive number
C8_PageBeyondLastIsEmptyPositiveLimit ==
  (ListAnswered
     /\ IsNum(response.metadata.limit) /\ response.metadata.limit.v > 0
     /\ IsNum(response.metadata.page) /\ IsNum(response.metadata.totalPages)
     /\ response.metadata.page.v > response.metadata.totalPages.v) =>
    /\ response.data = <<>>
    /\ response.metadata.total = Cardinality(PassingPositions)

---------------------------------------------------------------------------
(* Properties of the record store.                                         *)

\* C9: after any sequence of insert, update and delete requests no two
\* records of the store have the same id.
C9_IdsUnique ==
  \A i, j \in 1..Len(notifications) :
    notifications[i].id = notifications[j].id => i = j

\* C10: no update request changes the id of the record it targets, whatever
\* its body carries: the record an answered update returns is in the store
\* under the id the request named.
C10_UpdateKeepsId ==
  (request.handler = "PUT_part003" /\ response.status = 200) =>
    /\ response.body.id = Param("id")
    /\ \E i \in 1..Len(notifications) :
         notifications[i] = response.body /\ notifications[i].id = Param("id")

\* C10, for the update bodies that carry no id field
C10_UpdateWithoutIdFieldKeepsId ==
  (request.handler = "PUT_part003" /\ response.status = 200
     /\ "id" \notin DOMAIN request.body) =>
    response.body.id = Param("id")

\* the values the record type and the schema allow
StatusValues == { "In Progress", "Delivered", "Cancelled" }
TypeValues == { "Photo", "Text" }

\* C11: in every state of the store each record's status is one of
\* In Progress, Delivered, Cancelled and its type is Photo or Text; an insert
\* or update that would store another value leaves the store as it was.
C11_EnumsHold ==
  \A i \in 1..Len(notifications) :
    /\ notifications[i].status \in StatusValues
    /\ notifications[i].type \in TypeValues

\* the body gives the field: it has it, and not as an empty string
Gives(body, k) == k \in DOMAIN body /\ body[k] # EmptyOf(k)

\* the body of an insert lacks one of type, country, city
MissingRequired(body) == \E k \in {"type", "country", "city"} : ~Gives(body, k)

\* C12: an insert request whose body lacks type, country or city is answered
\* 400 and the store after it is the store before it.
C12_MissingFieldRejected ==
  [][ (request'.handler = "POST_part003" /\ MissingRequired(request'.body)) =>
        /\ response'.status = 400
        /\ response'.error = "Missing required fields"
        /\ notifications' = notifications ]_vars

\* an insert without city has been answered 400 after the store was written
C12_Witness ==
  /\ request.handler = "POST_part003"
  /\ "city" \notin DOMAIN request.body
  /\ response.status = 400
  /\ writes > 0

\* C13: an answered insert puts exactly one record in front of the store and
\* leaves the others as they were, in their order; the new record has an id,
\* the status In Progress when the body gave none, and the time of the
\* request as dateTime when the body gave none.
C13_InsertPrepends ==
  [][ (request'.handler = "POST_part003" /\ response'.status = 201) =>
        /\ Len(notifications') = Len(notifications) + 1
        /\ \A i \in 1..Len(notifications) : notifications'[i + 1] = notifications[i]
        /\ notifications'[1] = response'.body
        /\ "id" \in DOMAIN notifications'[1] /\ notifications'[1].id # ""
        /\ ~Gives(request'.body, "status") => notifications'[1].status = "In Progress"
        /\ ~Gives(request'.body, "dateTime") => notifications'[1].dateTime = request'.now ]_vars

\* a body without status and dateTime has been inserted in front of a store
\* that an earlier request had already changed
C13_Witness ==
  /\ request.handler = "POST_part003"
  /\ response.status = 201
  /\ "status" \notin DOMAIN request.body
  /\ "dateTime" \notin DOMAIN request.body
  /\ writes = 2
  /\ notifications[1] = response.body
  /\ notifications[1].status = "In Progress"
  /\ notifications[2] # Fixture[1]

\* the id parameter of the request names no record of the store
UnknownId(searchParams, store) ==
  /\ TruthyAtom(searchParams, "id")
  /\ \A i \in 1..Len(store) : store[i].id # searchParams["id"]

\* C14: a delete or update request whose id names no record of the store is
\* answered 404 and the store after it is the store before it.
C14_UnknownIdNotFound ==
  [][ (request'.handler \in {"DELETE_part003", "PUT_part003"}
         /\ UnknownId(request'.searchParams, notifications)) =>
        /\ response'.status = 404
        /\ notifications' = notifications ]_vars

\* a record of the fixture has been deleted and a second request for its id
\* is answered 404
C14_Witness ==
  /\ request.handler \in {"DELETE_part003", "PUT_part003"}
  /\ response.status = 404
  /\ Param("id") = "1"
  /\ Len(notifications) = Len(Fixture) - 1

\* the position of the first record of the store with this id
Target(store, id) ==
  CHOOSE i \in 1..Len(store) :
    store[i].id = id /\ \A j \in 1..(i - 1) : store[j].id # id

\* C15: an answered update replaces exactly the fields its body gives on the
\* record it targets and keeps the record's other fields, except that
\* dateTime becomes the time of the request even when the body gives one;
\* the record keeps its position and every other record is unchanged.
C15_UpdateMerges ==
  [][ (request'.handler = "PUT_part003" /\ response'.status = 200) =>
        LET index == Target(notifications, request'.searchParams["id"])
            before == notifications[index]
            after == notifications'[index]
            updates == request'.body
        IN /\ Len(notifications') = Len(notifications)
           /\ \A j \in 1..Len(notifications) \ {index} :
                notifications'[j] = notifications[j]
           /\ DOMAIN after = DOMAIN before \cup DOMAIN updates
           /\ \A k \in DOMAIN updates \ {"dateTime"} : after[k] = updates[k]
           /\ \A k \in DOMAIN before \ (DOMAIN updates \cup {"dateTime"}) :
                after[k] = before[k]
           /\ after.dateTime = request'.now
           /\ response'.body = after ]_vars

\* an update whose body gives a city and a dateTime has been answered: the
\* record has the city and the time of the request
C15_Witness ==
  /\ request.handler = "PUT_part003"
  /\ response.status = 200
  /\ "dateTime" \in DOMAIN request.body
  /\ request.body.dateTime # request.now
  /\ \E i \in 1..Len(notifications) :
       /\ notifications[i].id = Param("id")
       /\ notifications[i].city = request.body.city
       /\ notifications[i].dateTime = request.now
       /\ i > 1

---------------------------------------------------------------------------
(* Properties of the client table.                                         *)

\* the query parameters of the address other than page and limit
OtherParams(params) ==
  [k \in (DOMAIN params) \ {"page", "limit"} |-> params[k]]

\* C16: whenever the page size select changes the page size, from any page
\* and any page size, the address the router ends on has the new page size
\* and page 1, and the table reads page 1 and the new size from it.
C16_PageSizeChangeResetsPage ==
  [][ (event'.handler = "setPageSize" /\ Num(event'.value) # pageSize(location)) =>
        /\ "page" \in DOMAIN location' /\ location'["page"] = <<"1">>
        /\ "limit" \in DOMAIN location'
        /\ location'["limit"] = String(Num(event'.value))
        /\ page(location') = Num(1)
        /\ pageSize(location') = Num(event'.value)
        /\ OtherParams(location') = OtherParams(location) ]_vars

\* the page size has been changed to 20 on an address with another
\* parameter: the address has limit=20, page=1 and the other parameter
C16_Witness ==
  /\ event.handler = "setPageSize"
  /\ event.value = 20
  /\ location = [page |-> <<"1">>, limit |-> <<"2","0">>, tab |-> <<"a","l","l">>]
  /\ Cardinality(DOMAIN queries) > 1

\* C17: a change of page (a pagination link, or handlePageChange alone)
\* changes only the page: the page size the table reads from the address
\* and every other query parameter are as before.
C17_PageChangeKeepsRest ==
  [][ (\/ event'.handler = "Link"
       \/ event'.handler = "setPageSize" /\ Num(event'.value) = pageSize(location)) =>
        /\ pageSize(location') = pageSize(location)
        /\ OtherParams(location') = OtherParams(location)
        /\ event'.handler = "Link" => page(location') = LinkPage(event'.link) ]_vars

\* the next link has been followed from page 2 of 3 on an address with
\* another parameter
C17_Witness ==
  /\ event.handler = "Link"
  /\ event.link = "next"
  /\ location = [page |-> <<"3">>, limit |-> <<"5">>, tab |-> <<"a","l","l">>]

\* C18: a change of one filter (search term, status, type) sets the page to
\* 1 and sends a list request.
C18_FilterChangeResetsPageAndRefetches ==
  [][ event'.handler = "setFilterValue" =>
        /\ page(location') = Num(1)
        /\ fetchCount' = fetchCount + 1
        /\ Live(CurrentKey)' # {} ]_vars

\* the parameters a result was answered for
ResultParams(result) ==
  [page |-> result.metadata.currentPage, limit |-> result.metadata.pageSize]

C24_DeleteRemovesOne ==
  [][ (request'.handler = "DELETE_part003" /\ response'.status = 200) =>
        LET id == request'.searchParams["id"]
            index == Target(notifications, id)
        IN /\ Len(notifications') = Len(notifications) - 1
           /\ \A j \in 1..(index - 1) : notifications'[j] = notifications[j]
           /\ \A j \in index..Len(notifications') :
                notifications'[j] = notifications[j + 1]
           /\ UnknownId(request'.searchParams, notifications') ]_vars

\* C24, on the stores in which no two records share an id
C24_DeleteRemovesOneOfUniqueIds ==
  [][ (request'.handler = "DELETE_part003" /\ response'.status = 200
         /\ \A i, j \in 1..Len(notifications) :
              notifications[i].id = notifications[j].id => i = j) =>
        /\ Len(notifications') = Len(notifications) - 1
        /\ UnknownId(request'.searchParams, notifications')
        /\ \A j \in 1..Len(notifications) :
             notifications[j].id # request'.searchParams["id"] =>
               \E k \in {j - 1, j} : k >= 1 /\ notifications'[k] = notifications[j] ]_vars

\* C28: a list request (GET of either route) never changes the record store:
\* whatever its search term, filters, sort key, direction, page and limit, the
\* stored records and their order are after the request what they were before.
C28_ListKeepsStore ==
  [][ request'.handler \in {"GET", "GET_part003"} => notifications' = notifications ]_vars

\* a list request was answered whose sorted working array holds every stored
\* record in another order than the store
C28_Witness ==
  /\ request # NoRequest
  /\ request.handler = "GET"
  /\ Len(filteredNotifications) = Len(notifications)
  /\ filteredNotifications # notifications

\* C25: the metadata of an answered list request has the fields currentPage,
\* totalPages, pageSize and totalCount, and the total count the client table
\* takes from the answer is the count of matching records the endpoint
\* reports in it.
C25_ClientCountIsEndpointCount ==
  (request # NoRequest /\ request.handler \in {"GET", "GET_part003"}
     /\ response.status = 200) =>
    /\ DOMAIN response.metadata = {"currentPage", "totalPages", "pageSize", "totalCount"}
    /\ totalCountOf(response) = response.metadata.totalCount
    /\ totalCountOf(response) = Len(filteredNotifications)

\* C26: whatever the interleaving of inserts, updates and deletes that wait
\* at their awaits, an update changes only a record that has the requested id
\* when the update is applied, and a delete removes only such a record; every
\* record with another id stays as it is.
C26_OnlyRequestedIdAffected ==
  [][ /\ (request'.handler = "PUT_part003" /\ response'.status = 200) =>
          /\ Len(notifications') = Len(notifications)
          /\ \A j \in 1..Len(notifications) :
               notifications[j].id # request'.searchParams["id"] =>
                 notifications'[j] = notifications[j]
      /\ (request'.handler = "DELETE_part003" /\ response'.status = 200) =>
          \E k \in 1..Len(notifications) :
            /\ notifications[k].id = request'.searchParams["id"]
            /\ notifications' =
                 SubSeq(notifications, 1, k - 1) \o
                 SubSeq(notifications, k + 1, Len(notifications)) ]_vars

\* an update of a record was applied after its wait, at another position than
\* the record had in the fixture: a removal or an insertion came in between
C26_Witness ==
  /\ request # NoRequest
  /\ request.handler = "PUT_part003"
  /\ response.status = 200
  /\ suspended # {}
  /\ \E j \in 1..Len(notifications) :
       /\ notifications[j].dateTime = request.now
       /\ \A i \in 1..Len(Fixture) :
            Fixture[i].id = request.searchParams["id"] => i # j

\* C29: at most one connect call is pending at any time: a dbConnect call
\* made while one is pending returns a promise that follows it and starts no
\* connect call, and a dbConnect call made while a connection is cached
\* returns that connection and starts no connect call.
C29_OneAttemptInFlight ==
  [][ /\ Cardinality({i \in 1..Len(attempts') : attempts'[i] = "pending"}) <= 1
      /\ (connectionPromise = Null /\ connectionPromise' # Null) =>
           /\ Pending # {} =>
                /\ attempts' = attempts
                /\ connectionPromise'.attempt \in Pending
           /\ cached.conn # "null" =>
                /\ attempts' = attempts
                /\ connectionPromise'.attempt = 0 ]_vars

\* the route module was evaluated again while a connect call was pending, and
\* a handler waits for the promise its dbConnect call returned
C29_Witness ==
  /\ connectionPromise # Null
  /\ connectionPromise.returned = "cached.promise"
  /\ connectionPromise.attempt \in Pending
  /\ \E invocation \in suspended : invocation.awaits = connectionPromise

\* C30: after a connect call has failed, the next request to a handler starts
\* a connect call of its own and waits for that one, never for the failed one.
C30_FailedAttemptNotReused ==
  [][ \A invocation \in suspended' \ suspended :
        invocation.awaits.attempt \in 1..Len(attempts) =>
          attempts[invocation.awaits.attempt] # "failed" ]_vars

\* C21: while a list request is in flight and the table has had a result
\* before, the table is rendered with that result (the data of the current
\* query or of the last query that had data): neither the error view nor
\* skeleton rows take its place, and the data is not undefined.
C21_PreviousResultStaysVisible ==
  (isFetching /\ lastQueryWithDefinedData # NoQuery) =>
    /\ view \in {"rows", "empty"}
    /\ data # Undefined

\* C21, for the fetches that are not a retry from the error view
C21_PreviousResultStaysVisibleUnlessError ==
  (isFetching /\ lastQueryWithDefinedData # NoQuery /\ ~isError) =>
    /\ view \in {"rows", "empty"}
    /\ data # Undefined

\* C22: a list request of the current parameters that fails, whatever the
\* cause, leaves the current query in status error, which is the one state
\* in which the error view with its retry button is rendered; a click on the
\* button keeps the address and leaves one request for the current
\* parameters in flight; and a query only goes from idle to fetching, and
\* from fetching to idle with status success or error.
C22_FailureRetryAndQueryStates ==
  [][ LET key == notificationsQueryKey(FetchParams(location))
      IN /\ ( /\ event'.handler = "onError"
              /\ \E r \in inflight \ inflight' : r.key = key /\ r.live )
           => queries'[key].status = "error"
         /\ event'.handler = "TryAgain"
           => /\ location' = location
              /\ { r \in inflight' : r.key = key /\ r.live } =
                   { [key |-> key, id |-> fetchCount', live |-> TRUE] }
              /\ fetchCount' = fetchCount + 1
         /\ \A k \in DOMAIN queries' :
              \/ k \in DOMAIN queries /\ queries'[k] = queries[k]
              \/ /\ QueryOf(queries, k).fetchStatus = "idle"
                 /\ queries'[k].fetchStatus = "fetching"
              \/ /\ queries[k].fetchStatus = "fetching"
                 /\ queries'[k].fetchStatus = "idle"
                 /\ queries'[k].status \in {"success", "error"}
              \/ /\ queries[k].fetchStatus = "fetching"
                 /\ queries'[k].fetchStatus = "fetching"
                 /\ event'.handler = "TryAgain" ]_vars

\* C22: the error view is rendered exactly when the current query is in
\* status error
C22_ErrorViewIffError ==
  (view = "error") <=> (CurrentQuery.status = "error")

\* a request of the current parameters has failed and the retry button of
\* the error view was clicked: the retry's request is in flight
C22_Witness ==
  /\ event.handler = "TryAgain"
  /\ Live(CurrentKey) # {}
  /\ CurrentQuery.fetchStatus = "fetching"

\* C23: once no mutation and no list request is pending, the list the table
\* shows from its current query is the list endpoint's result for the store
\* as the mutations have left it.
C23_ListFreshOnceSettled ==
  ( /\ Idle
    /\ inflight = {}
    /\ CurrentQuery.status = "success"
    /\ CurrentQuery.data # Undefined )
  => data = NotificationsResponse(notifications, FetchParams(location))

\* C23: a successful mutation marks every cached list query invalidated or
\* leaves it fetching, and a failed mutation changes no query.
C23_InvalidatesAll ==
  [][ /\ event'.handler = "onMutationSuccess" =>
           \A k \in DOMAIN queries :
             queries'[k].isInvalidated \/ queries'[k].fetchStatus = "fetching"
      /\ event'.handler = "onMutationError" =>
           queries' = queries /\ inflight' = inflight ]_vars

\* C23: a successful mutation leaves every cached list query fetching.
C23_RefetchesAll ==
  [][ event'.handler = "onMutationSuccess" =>
        \A k \in DOMAIN queries : queries'[k].fetchStatus = "fetching" ]_vars

\* ---- C27 ----
\* the table has the current query's own answer and nothing is pending
SettledView ==
  /\ Idle /\ inflight = {} /\ suspended = {}
  /\ CurrentQuery.status = "success" /\ CurrentQuery.data # Undefined

\* C27: whenever the list is settled on its own answer, the page the client
\* shows lies in 1..max(1, totalPages) of that answer.
C27_PageWithinTotalPages ==
  SettledView =>
    /\ IsNum(totalPages)
    /\ page(location).v >= 1
    /\ page(location).v <= (IF totalPages.v > 1 THEN totalPages.v ELSE 1)

\* C27: once the table has an answer, a pagination link that acts leads to a
\* page in 1..max(1, totalPages); at the first and the last page the links of
\* that side do nothing.
C27_LinksStayInRange ==
  [][ (data # Undefined /\ event'.handler = "Link") =>
        /\ page(location').v >= 1
        /\ page(location').v <= (IF IsNum(totalPages) /\ totalPages.v > 1
                                   THEN totalPages.v ELSE 1) ]_vars

====
